---- MODULE Spec2Model ----
(***************************************************************************)
(* A model of the file-orbit orchestration engine: the job queue kept in   *)
(* Redis, the worker (JobProcessor), the chain-job generator, the template *)
(* execution and job endpoints of the REST surface that create and queue   *)
(* jobs, and the cron scheduler.                                           *)
(*                                                                         *)
(* Strings are sequences of atoms.  An atom is a separator ("/", ":",      *)
(* "."), a template token ("{year}", ...) or an opaque piece of text with  *)
(* no separator and no brace in it, so str.replace of a token is a         *)
(* replacement of atoms and the path functions split at separator atoms.   *)
(***************************************************************************)
EXTENDS Integers, Sequences, FiniteSets, TLC

NULL == "NULL"

\* a nullable datetime column: no value, or one time in seconds
NoTime == <<>>
At(t) == <<t>>

\* ------------------------------------------------------------------ strings


RECURSIVE Flatten(_)
Flatten(ss) == IF ss = <<>> THEN <<>> ELSE Head(ss) \o Flatten(Tail(ss))

\* str.replace(key, value)
Replace(s, key, value) ==
    Flatten([i \in 1..Len(s) |-> IF s[i] = key THEN value ELSE <<s[i]>>])

Contains(s, a) == \E i \in 1..Len(s) : s[i] = a

\* str.find / str.rfind of a one-character needle, 0 when absent
FirstIndex(s, a) ==
    IF Contains(s, a) THEN CHOOSE i \in 1..Len(s) : s[i] = a /\ \A j \in 1..(i-1) : s[j] # a
    ELSE 0

LastIndex(s, a) ==
    IF Contains(s, a) THEN CHOOSE i \in 1..Len(s) : s[i] = a /\ \A j \in (i+1)..Len(s) : s[j] # a
    ELSE 0

StartsWith(s, a) == Len(s) > 0 /\ s[1] = a

RECURSIVE LStrip(_, _)
LStrip(s, a) == IF StartsWith(s, a) THEN LStrip(Tail(s), a) ELSE s

RECURSIVE RStrip(_, _)
RStrip(s, a) ==
    IF Len(s) > 0 /\ s[Len(s)] = a THEN RStrip(SubSeq(s, 1, Len(s) - 1), a) ELSE s

\* os.path.basename
Basename(p) == SubSeq(p, LastIndex(p, "/") + 1, Len(p))

\* os.path.dirname: the head up to the last slash, its trailing slashes
\* stripped unless it is slashes only
Dirname(p) ==
    LET head == SubSeq(p, 1, LastIndex(p, "/"))
    IN  IF RStrip(head, "/") = <<>> THEN head ELSE RStrip(head, "/")

\* os.path.splitext of a file name: <<root, ext>>, the extension starting at
\* the last dot unless only dots precede it
Splitext(name) ==
    LET d == LastIndex(name, ".")
    IN  IF d > 0 /\ (\E j \in 1..(d-1) : name[j] # ".")
        THEN <<SubSeq(name, 1, d - 1), SubSeq(name, d, Len(name))>>
        ELSE <<name, <<>>>>

\* pathlib.PurePosixPath: the components of a path, empty and "." ones dropped
RECURSIVE PathParts(_)
PathParts(p) ==
    IF p = <<>> THEN <<>>
    ELSE LET i    == FirstIndex(p, "/")
             comp == IF i = 0 THEN p ELSE SubSeq(p, 1, i - 1)
             rest == IF i = 0 THEN <<>> ELSE SubSeq(p, i + 1, Len(p))
         IN  IF comp = <<>> \/ comp = <<".">> THEN PathParts(rest)
             ELSE <<comp>> \o PathParts(rest)

RECURSIVE JoinParts(_)
JoinParts(parts) ==
    IF parts = <<>> THEN <<>>
    ELSE IF Len(parts) = 1 THEN parts[1]
    ELSE parts[1] \o <<"/">> \o JoinParts(Tail(parts))

\* str(PurePosixPath(...)) from an anchor flag and components
PathStrOf(anchored, parts) ==
    IF parts = <<>> THEN (IF anchored THEN <<"/">> ELSE <<".">>)
    ELSE (IF anchored THEN <<"/">> ELSE <<>>) \o JoinParts(parts)

\* Path(p).name
PathName(p) ==
    LET parts == PathParts(p) IN IF parts = <<>> THEN <<>> ELSE parts[Len(parts)]

\* str(Path(p).parent)
PathParent(p) ==
    LET parts == PathParts(p)
    IN  IF parts = <<>> THEN PathStrOf(StartsWith(p, "/"), <<>>)
        ELSE PathStrOf(StartsWith(p, "/"), SubSeq(parts, 1, Len(parts) - 1))

\* str(Path(base) / rel); an absolute rel replaces base
PathJoin(base, rel) ==
    IF StartsWith(rel, "/") THEN PathStrOf(TRUE, PathParts(rel))
    ELSE PathStrOf(StartsWith(base, "/"), PathParts(base) \o PathParts(rel))

\* the template tokens of the specification's expander table
TemplateTokens ==
    {"{year}", "{month}", "{day}", "{hour}", "{minute}", "{timestamp}",
     "{filename}", "{original_filename}", "{name}", "{basename}", "{ext}",
     "{extension}"}

HasUnresolved(s) == \E i \in 1..Len(s) : s[i] \in TemplateTokens

\* ------------------------------------------------------- template expanders

\* the wall clock's date fields as the expanders format them
ClockYear == <<"2025">>
ClockMonth == <<"01">>
ClockDay == <<"02">>
ClockHour == <<"03">>
ClockMinute == <<"04">>
ClockTimestamp == <<"1735787040">>

\* JobProcessor._apply_path_template: the replacements in dictionary order
WorkerReplacements(source_file) ==
    LET filename == Basename(source_file)
        parts    == Splitext(filename)
    IN  << <<"{filename}", filename>>,
           <<"{original_filename}", filename>>,
           <<"{name}", parts[1]>>,
           <<"{ext}", parts[2]>>,
           <<"{year}", ClockYear>>,
           <<"{month}", ClockMonth>>,
           <<"{day}", ClockDay>>,
           <<"{hour}", ClockHour>>,
           <<"{minute}", ClockMinute>>,
           <<"{timestamp}", ClockTimestamp>> >>

RECURSIVE ApplyReplacements(_, _)
ApplyReplacements(s, reps) ==
    IF reps = <<>> THEN s
    ELSE ApplyReplacements(Replace(s, Head(reps)[1], Head(reps)[2]), Tail(reps))

WorkerApplyPathTemplate(template, source_file) ==
    ApplyReplacements(template, WorkerReplacements(source_file))

\* EventMonitor._apply_path_template: the same dictionary and loop as the
\* worker's; event_data is not used
EventApplyPathTemplate(template, source_path) ==
    ApplyReplacements(template, WorkerReplacements(source_path))

\* ChainJobService._apply_path_template
ChainApplyPathTemplate(template, source_path) ==
    LET filename == Basename(source_path)
        parts    == Splitext(filename)
    IN  ApplyReplacements(template,
            << <<"{year}", ClockYear>>,
               <<"{month}", ClockMonth>>,
               <<"{day}", ClockDay>>,
               <<"{filename}", filename>>,
               <<"{basename}", parts[1]>>,
               <<"{extension}", LStrip(parts[2], ".")>> >>)

\* --------------------------------------------------------------- endpoints

\* the endpoints table: kind, kind-specific configuration, concurrency cap
Endpoints ==
    [ep_local |-> [type |-> "local", path |-> <<"/">>, bucket |-> <<>>,
                   max_concurrent_transfers |-> 1],
     ep_s3    |-> [type |-> "s3", path |-> <<>>, bucket |-> <<"bkt">>,
                   max_concurrent_transfers |-> 2]]

EndpointIds == DOMAIN Endpoints

\* RcloneService._build_path with the remote as _configure_endpoint set it up
RcloneBuildPath(remote_name, endpoint, path) ==
    CASE endpoint.type = "local" ->
            IF endpoint.path = <<>> \/ endpoint.path = <<"/">> THEN path
            ELSE IF StartsWith(path, "/") THEN path
            ELSE PathJoin(endpoint.path, path)
      [] endpoint.type = "s3" ->
            IF endpoint.bucket # <<>>
            THEN <<remote_name, ":">> \o endpoint.bucket \o <<"/">> \o LStrip(path, "/")
            ELSE <<remote_name, ":">> \o path
      [] endpoint.type = "smb" -> <<remote_name, ":">> \o LStrip(path, "/")
      [] OTHER -> <<remote_name, ":">> \o path

\* JobProcessor._build_remote_path
BuildRemotePath(remote_name, endpoint, base_path, file_path) ==
    LET path == IF StartsWith(file_path, "/") THEN file_path
                ELSE IF base_path = <<"/">> \/ base_path = <<>> THEN file_path
                ELSE IF file_path # <<>> THEN PathJoin(base_path, file_path)
                ELSE base_path
    IN  RcloneBuildPath(remote_name, endpoint, path)

\* the tokens whose presence makes _execute_transfer expand the destination
WorkerGuardTokens ==
    {"{year}", "{month}", "{day}", "{filename}", "{original_filename}", "{timestamp}"}

\* JobProcessor._execute_transfer, lines 374-398: the resolved destination of
\* one file
ResolveDestination(destination_path, dest_endpoint, file_name) ==
    LET substituted == WorkerApplyPathTemplate(destination_path, file_name)
        dest_base   == IF \E i \in 1..Len(destination_path) :
                              destination_path[i] \in WorkerGuardTokens
                       THEN IF PathName(substituted) = file_name
                            THEN PathParent(substituted)
                            ELSE substituted
                       ELSE destination_path
        dest_path   == BuildRemotePath("dest", dest_endpoint, dest_base, <<>>)
    IN  dest_path \o <<"/">> \o file_name

\* ------------------------------------------------------------ bounds, inputs

\* job rows, transfer rows and REST calls the model lets the system make
MaxJobs == 3
MaxTransfers == 2
MaxCalls == 2
\* steps of the wall clock
MaxTicks == 3
\* the wall clock, in seconds: where it starts and how far one step takes it
Clock == [start |-> 1200, step |-> 30]

\* the worker processes
Workers == {"w1", "w2"}

\* file names the source directories may hold
FileA == <<"a", ".", "mp4">>
FileB == <<"a", ":", "b">>
FileOrder == <<FileA, FileB>>

\* chain rules as a job's config or a template carries them; the job config
\* is free-form JSON, so a rule may lack its endpoint_id
RuleBackup ==
    [endpoint_id |-> "ep_s3",
     path_template |-> <<"/", "backup", "/", "{year}", "/", "{filename}">>]
RuleNoEndpoint ==
    [path_template |-> <<"/", "archive", "/", "{filename}">>]

\* further rules: a second one that can be built, and the invalid rule of
\* tests/test_chain_rules.py line 652
RuleArchive ==
    [endpoint_id |-> "ep_local",
     path_template |-> <<"/", "archive", "/", "{filename}">>]
RuleNullEndpoint ==
    [endpoint_id |-> NULL, path_template |-> <<"/", "invalid", "/", "{filename}">>]
ChainRules == {RuleBackup, RuleArchive, RuleNoEndpoint, RuleNullEndpoint}
\* rules in one chain_rules argument
MaxRules == 3
\* the chain_rules arguments: lists of different rules
ChainRuleLists ==
    UNION {{l \in [1..n -> ChainRules] : \A i, k \in 1..n : l[i] = l[k] => i = k} :
            n \in 0..MaxRules}

\* request bodies of POST /jobs (JobCreate)
JobRequests ==
    { [type |-> "manual", source_endpoint_id |-> "ep_local", source_path |-> <<"/", "src">>,
       destination_endpoint_id |-> "ep_local",
       destination_path |-> <<"/", "dst", "/", "{year}", "/", "{original_filename}">>,
       file_pattern |-> <<"*">>,
       config |-> [chain_rules |-> <<RuleBackup>>]],
      [type |-> "manual", source_endpoint_id |-> "ep_local", source_path |-> <<"/", "src">>,
       destination_endpoint_id |-> "ep_s3",
       destination_path |-> <<"/", "dst", "/", "{hour}">>,
       file_pattern |-> <<"*">>,
       config |-> [chain_rules |-> <<RuleBackup, RuleNoEndpoint>>]] }

\* the transfer_templates table
Templates ==
    [tpl_manual |->
        [event_type |-> "manual", is_active |-> TRUE, source_endpoint_id |-> "ep_local",
         source_config |-> [path |-> <<"/", "src">>],
         destination_endpoint_id |-> "ep_local",
         destination_path_template |-> <<"/", "dst", "/", "{year}", "/", "{filename}">>,
         chain_rules |-> <<RuleBackup>>,
         file_pattern |-> <<"*">>],
     tpl_watch |->
        [event_type |-> "file:created", is_active |-> TRUE, source_endpoint_id |-> "ep_local",
         source_config |-> [watch_path |-> <<"/", "inbox">>],
         destination_endpoint_id |-> "ep_s3",
         destination_path_template |-> <<"/", "in", "/", "{year}", "/", "{filename}">>,
         chain_rules |-> <<RuleBackup>>,
         file_pattern |-> <<"*">>]]

TemplateIds == DOMAIN Templates

\* ---------------------------------------------------------------- the state

VARIABLES
    jobs,        \* the jobs table: a sequence of rows, the id is the index
    transfers,   \* the transfers table, likewise
    queue,       \* the sorted set job_queue: job id -> [score, ticket]
    counters,    \* the endpoint_counters keys: endpoint id -> integer
    now,         \* the wall clock, in seconds
    wk,          \* each worker's position and local variables
    sched,       \* the scheduler: running flag and what it saw at start
    tickets,     \* history: how often each queue entry was handed to a worker
    calls,       \* REST calls made so far
    tstats,      \* the statistics columns of the transfer_templates table
    events,      \* history: the events delivered to the event monitor
    s3           \* the S3 event monitor and the bucket it watches

vars == <<jobs, transfers, queue, counters, now, wk, sched, tickets, calls, tstats, events, s3>>

JobIds == 1..Len(jobs)
TransferIds == 1..Len(transfers)

\* models/job.py: a row of the jobs table with the column defaults
NewJob(type, status, src, source_path, dst, destination_path, file_pattern, parent, config) ==
    [type |-> type, status |-> status,
     source_endpoint_id |-> src, source_path |-> source_path,
     destination_endpoint_id |-> dst, destination_path |-> destination_path,
     file_pattern |-> file_pattern, parent_job_id |-> parent, config |-> config,
     schedule |-> NULL, next_run_at |-> NoTime, is_active |-> TRUE,
     completed_at |-> NoTime, error_message |-> NULL,
     total_runs |-> 0, successful_runs |-> 0, failed_runs |-> 0]

\* loaded: the run counters of the Job object the worker holds, as the select
\* of process_next_job read them; the session does not read them again
\* (expire_on_commit is off, tests/conftest.py 68)
NoRuns == [total_runs |-> 0, successful_runs |-> 0, failed_runs |-> 0]

IdleWorker ==
    [pc |-> "idle", job_id |-> 0, ticket |-> 0, tlist |-> <<>>, idx |-> 0, loaded |-> NoRuns]

\* S3EventMonitor.__init__, line 32: nothing processed yet.  The set of
\* processed event ids is kept as the ids of the watched key plus the number
\* of ids of all other keys.  Contents is the bucket's listing of the
\* watched key: empty, or the one object.
S3Start == [processed_events |-> [tracked |-> {}, others |-> 0], Contents |-> <<>>]

Init ==
    /\ jobs = <<>>
    /\ transfers = <<>>
    /\ queue = <<>>
    /\ counters = [e \in EndpointIds |-> 0]
    /\ now = Clock.start
    /\ wk = [w \in Workers |-> IdleWorker]
    /\ sched = [running |-> FALSE, wake_at |-> 0, checks |-> 0, jobs_at_start |-> 0,
                missed |-> {}]
    /\ tickets = <<>>
    /\ calls = 0
    /\ tstats = [tid \in TemplateIds |-> [total_triggers |-> 0, successful_transfers |-> 0]]
    /\ events = <<>>
    /\ s3 = S3Start

\* ---------------------------------------------------------------- the queue

Queued == DOMAIN queue

\* RedisManager.enqueue_job: ZADD job_queue {job_id: score}; an id already in
\* the set keeps its entry and takes the new score
EnqueueScore(priority, delay) == IF delay > 0 THEN now + delay ELSE priority

\* mutation: an id already in the set keeps its old score
Enqueued_KeepingScore(q, tk, job_id, priority, delay) ==
    IF job_id \in DOMAIN q
    THEN q
    ELSE [i \in DOMAIN q \cup {job_id} |->
            IF i = job_id
            THEN [score |-> EnqueueScore(priority, delay), ticket |-> Len(tk) + 1]
            ELSE q[i]]

Enqueued(q, tk, job_id, priority, delay) ==
    IF job_id \in DOMAIN q
    THEN [q EXCEPT ![job_id].score = EnqueueScore(priority, delay)]
    ELSE [i \in DOMAIN q \cup {job_id} |->
            IF i = job_id
            THEN [score |-> EnqueueScore(priority, delay), ticket |-> Len(tk) + 1]
            ELSE q[i]]

Ticketed(q, tk, job_id) == IF job_id \in DOMAIN q THEN tk ELSE Append(tk, 0)

\* RedisManager.dequeue_job, lines 52-59: ZRANGEBYSCORE -inf now LIMIT 0 1.
\* Members of equal score come in the order of their ids, which are random
\* uuids, so any of them may be first.
\* mutation: the lowest score wins whether it is due or not
DueHeads_IgnoringClock ==
    {j \in Queued : \A k \in Queued : queue[k].score >= queue[j].score}

DueHeads ==
    {j \in Queued : queue[j].score <= now
                    /\ \A k \in Queued : queue[k].score >= queue[j].score}

\* ZREM job_queue job_id
Removed(q, job_id) == [i \in DOMAIN q \ {job_id} |-> q[i]]

\* ------------------------------------------------------ the chain generator

\* a rule from which JobCreate can be built: chain_rule['endpoint_id'] and
\* chain_rule['path_template'] raise otherwise, which skips the rule
\* (KeyError); JobCreate refuses an endpoint_id of None (schemas/job.py 11)
RuleUsable(rule) ==
    /\ "endpoint_id" \in DOMAIN rule
    /\ "path_template" \in DOMAIN rule
    /\ rule.endpoint_id # NULL

\* chain_job_service.py lines 176-180: split at the first colon, if there is one
StripRemotePrefix(path) ==
    IF Contains(path, ":") THEN SubSeq(path, FirstIndex(path, ":") + 1, Len(path))
    ELSE path

\* chain_job_service.py line 190
ChainSourceDir(actual_source_path) ==
    IF Contains(actual_source_path, "/") THEN Dirname(actual_source_path) ELSE <<>>

\* ChainJobService._create_per_file_chain_jobs, lines 193-222: the job of one
\* transfer and one rule
PerFileChainJob(parent_id, transfer_id, idx, rule) ==
    LET actual_source_path == StripRemotePrefix(transfers[transfer_id].destination_path)
        filename           == Basename(actual_source_path)
    IN  NewJob("chained", "pending",
               jobs[parent_id].destination_endpoint_id,
               ChainSourceDir(actual_source_path),
               rule.endpoint_id,
               ChainApplyPathTemplate(rule.path_template, actual_source_path),
               filename,
               parent_id,
               [parent_job_id |-> parent_id, parent_transfer_id |-> transfer_id,
                chain_index |-> idx - 1, chain_rule |-> rule, source_file |-> filename])

\* mutation: only the first transfer gets chain jobs
CreatePerFileChainJobs_FirstTransferOnly(parent_id, chain_rules, tids) ==
    Flatten([i \in 1..Len(chain_rules) |->
        IF RuleUsable(chain_rules[i]) /\ transfers[tids[1]].destination_path # NULL
        THEN <<PerFileChainJob(parent_id, tids[1], i, chain_rules[i])>>
        ELSE <<>>])

\* ChainJobService._create_per_file_chain_jobs: transfers outermost, rules
\* innermost; a transfer without destination_path or a rule that cannot be
\* built raises inside the try and is skipped
CreatePerFileChainJobs(parent_id, chain_rules, tids) ==
    Flatten([k \in 1..Len(tids) |->
        Flatten([i \in 1..Len(chain_rules) |->
            IF RuleUsable(chain_rules[i]) /\ transfers[tids[k]].destination_path # NULL
            THEN <<PerFileChainJob(parent_id, tids[k], i, chain_rules[i])>>
            ELSE <<>>])])

\* mutation: the chain job reads where the parent read
LegacyChainJob_FromParentSource(parent_id, parent, idx, rule) ==
    NewJob("chained", "pending",
           parent.source_endpoint_id,
           parent.source_path,
           rule.endpoint_id,
           ChainApplyPathTemplate(rule.path_template, parent.destination_path),
           parent.file_pattern,
           parent_id,
           [parent_job_id |-> parent_id, chain_index |-> idx - 1, chain_rule |-> rule])

\* ChainJobService.create_chain_jobs, lines 48-95: one job per rule from the
\* parent's own destination_path and file_pattern
LegacyChainJob(parent_id, parent, idx, rule) ==
    NewJob("chained", "pending",
           parent.destination_endpoint_id,
           parent.destination_path,
           rule.endpoint_id,
           ChainApplyPathTemplate(rule.path_template, parent.destination_path),
           parent.file_pattern,
           parent_id,
           [parent_job_id |-> parent_id, chain_index |-> idx - 1, chain_rule |-> rule])

\* mutation: the first rule that cannot be built ends the loop
CreateLegacyChainJobs_StopAtInvalid(parent_id, parent, chain_rules) ==
    Flatten([i \in 1..Len(chain_rules) |->
        IF \A k \in 1..i : RuleUsable(chain_rules[k])
        THEN <<LegacyChainJob(parent_id, parent, i, chain_rules[i])>>
        ELSE <<>>])

\* create_chain_jobs, lines 50-90: each rule in its own try, a rule that
\* raises is logged and skipped
CreateLegacyChainJobs(parent_id, parent, chain_rules) ==
    Flatten([i \in 1..Len(chain_rules) |->
        IF RuleUsable(chain_rules[i])
        THEN <<LegacyChainJob(parent_id, parent, i, chain_rules[i])>>
        ELSE <<>>])

\* per_file_transfers = None, the default when the caller leaves it out; a
\* list that is given holds ids of Transfer rows, which start at 1
NotGiven == <<0>>

\* ChainJobService.create_chain_jobs; `if per_file_transfers:` is false for
\* None and for the empty list alike
CreateChainJobs(parent_id, parent, chain_rules, per_file_transfers) ==
    IF chain_rules = <<>> THEN <<>>
    ELSE IF per_file_transfers # NotGiven /\ per_file_transfers # <<>>
    THEN CreatePerFileChainJobs(parent_id, chain_rules, per_file_transfers)
    ELSE CreateLegacyChainJobs(parent_id, parent, chain_rules)

\* --------------------------------------------------------------- the worker

\* ThrottleController.check_can_acquire; the limits are loaded from the
\* endpoints table when the worker starts
CheckCanAcquire(endpoint_id) ==
    counters[endpoint_id] < Endpoints[endpoint_id].max_concurrent_transfers

\* ThrottleController.can_start_transfer
CanStartTransfer(source_endpoint_id, destination_endpoint_id) ==
    CheckCanAcquire(source_endpoint_id) /\ CheckCanAcquire(destination_endpoint_id)

\* --include pattern of rclone lsjson, for the patterns the model uses: "*"
\* and a literal file name
Matches(name, pattern) == pattern = <<"*">> \/ pattern = name

\* JobProcessor._get_files_to_transfer: the pattern handed to list_files
ListPattern(job) ==
    IF job.type = "chained" /\ job.source_path # <<>> /\ job.file_pattern = <<>>
    THEN Basename(job.source_path)
    ELSE IF job.file_pattern = <<>> THEN <<"*">> ELSE job.file_pattern

\* the listings the source directory may give: any of the files that match
Listings(job) ==
    { SelectSeq(FileOrder, LAMBDA f : f \in present /\ Matches(f, ListPattern(job))) :
        present \in SUBSET {FileOrder[i] : i \in 1..Len(FileOrder)} }

\* models/transfer.py: a row of the transfers table as execute_job creates it
NewTransfer(job_id, file_name) ==
    [job_id |-> job_id, file_name |-> file_name, file_path |-> file_name,
     destination_path |-> NULL, status |-> "pending", started_at |-> NoTime,
     error_message |-> NULL]

\* process_next_job, line 79 and dequeue_job lines 52-62: the worker reads the
\* head of the queue
WorkerPeek(w) ==
    /\ wk[w].pc = "idle"
    /\ \E j \in DueHeads :
        wk' = [wk EXCEPT ![w] = [IdleWorker EXCEPT !.pc = "peeked", !.job_id = j,
                                                   !.ticket = queue[j].ticket]]
    /\ UNCHANGED <<jobs, transfers, queue, counters, now, sched, tickets, calls, tstats, events, s3>>

\* dequeue_job lines 64-65 and process_next_job lines 86-107: ZREM, whose
\* result is not looked at, then the job is loaded and set RUNNING
WorkerTake(w) ==
    /\ wk[w].pc = "peeked"
    /\ queue' = Removed(queue, wk[w].job_id)
    /\ tickets' = [tickets EXCEPT ![wk[w].ticket] = @ + 1]
    /\ jobs' = [jobs EXCEPT ![wk[w].job_id].status = "running"]
    /\ wk' = [wk EXCEPT ![w].pc = "running",
                        ![w].loaded = [k \in DOMAIN NoRuns |-> jobs[wk[w].job_id][k]]]
    /\ UNCHANGED <<transfers, counters, now, sched, calls, tstats, events, s3>>

\* mutation: an exception before the transfers leaves the job RUNNING
ExecuteJobFailed_Swallowed(w) == jobs

\* execute_job, lines 254-260: the handler of an exception outside a transfer
ExecuteJobFailed(w) ==
    [jobs EXCEPT ![wk[w].job_id].status = "failed",
                 ![wk[w].job_id].completed_at = At(now),
                 ![wk[w].job_id].failed_runs = wk[w].loaded.failed_runs + 1,
                 ![wk[w].job_id].total_runs = wk[w].loaded.total_runs + 1]

\* mutation: a job that finds no file is failed
ExecuteJobListed_EmptyFails(w, files) ==
    LET j == wk[w].job_id IN
    /\ Len(transfers) + Len(files) <= MaxTransfers
    /\ IF files = <<>>
       THEN /\ jobs' = ExecuteJobFailed(w)
            /\ wk' = [wk EXCEPT ![w] = IdleWorker]
            /\ UNCHANGED transfers
       ELSE /\ transfers' = transfers \o [i \in 1..Len(files) |-> NewTransfer(j, files[i])]
            /\ wk' = [wk EXCEPT ![w].pc = "transfer", ![w].idx = 1,
                                ![w].tlist = [i \in 1..Len(files) |-> Len(transfers) + i]]
            /\ UNCHANGED jobs

\* execute_job, lines 147-184: what follows the listing, for the files listed
ExecuteJobListed(w, files) ==
    LET j == wk[w].job_id IN
    /\ Len(transfers) + Len(files) <= MaxTransfers
    /\ IF files = <<>>
       THEN /\ jobs' = [jobs EXCEPT ![j].status = "completed",
                                    ![j].completed_at = At(now),
                                    ![j].successful_runs = wk[w].loaded.successful_runs + 1,
                                    ![j].total_runs = wk[w].loaded.total_runs + 1]
            /\ wk' = [wk EXCEPT ![w] = IdleWorker]
            /\ UNCHANGED transfers
       ELSE /\ transfers' = transfers \o [i \in 1..Len(files) |-> NewTransfer(j, files[i])]
            /\ wk' = [wk EXCEPT ![w].pc = "transfer", ![w].idx = 1,
                                ![w].tlist = [i \in 1..Len(files) |-> Len(transfers) + i]]
            /\ UNCHANGED jobs

\* execute_job, lines 254-260: an exception before the loop over the
\* transfers ends the run in the handler
ExecuteJobRaised(w) ==
    /\ jobs' = ExecuteJobFailed(w)
    /\ wk' = [wk EXCEPT ![w] = IdleWorker]
    /\ UNCHANGED transfers

\* execute_job, lines 135-184 and 254-260: throttle check, listing, Transfer
\* rows, or the exception handler
WorkerExecuteJob(w) ==
    LET j == wk[w].job_id IN
    /\ wk[w].pc = "running"
    /\ IF ~CanStartTransfer(jobs[j].source_endpoint_id, jobs[j].destination_endpoint_id)
       THEN /\ jobs' = [jobs EXCEPT ![j].status = "queued"]
            /\ queue' = Enqueued(queue, tickets, j, 0, 60)
            /\ tickets' = Ticketed(queue, tickets, j)
            /\ wk' = [wk EXCEPT ![w] = IdleWorker]
            /\ UNCHANGED transfers
       ELSE /\ \/ \E files \in Listings(jobs[j]) : ExecuteJobListed(w, files)
               \* lines 148 and 254-260: configuring the source or listing it
               \* raises (bad endpoint configuration, adapter error or timeout)
               \/ ExecuteJobRaised(w)
            /\ UNCHANGED <<queue, tickets>>
    /\ UNCHANGED <<counters, now, sched, calls, tstats, events, s3>>

\* _execute_transfer, lines 358-360
WorkerBeginTransfer(w) ==
    LET t == wk[w].tlist[wk[w].idx] IN
    /\ wk[w].pc = "transfer"
    /\ transfers' = [transfers EXCEPT ![t].status = "in_progress", ![t].started_at = At(now)]
    /\ wk' = [wk EXCEPT ![w].pc = "resolve"]
    /\ UNCHANGED <<jobs, queue, counters, now, sched, tickets, calls, tstats, events, s3>>

\* mutation: the copy is started before the destination is written to the row
WorkerResolveTransfer_CopyFirst(w) ==
    /\ wk[w].pc = "resolve"
    /\ wk' = [wk EXCEPT ![w].pc = "copy"]
    /\ UNCHANGED <<jobs, transfers, queue, counters, now, sched, tickets, calls, tstats, events, s3>>

\* _execute_transfer, lines 364-401: the resolved destination is written to
\* the row
WorkerResolveTransfer(w) ==
    LET t == wk[w].tlist[wk[w].idx]
        j == wk[w].job_id
    IN
    /\ wk[w].pc = "resolve"
    /\ transfers' = [transfers EXCEPT ![t].destination_path =
                        ResolveDestination(jobs[j].destination_path,
                                           Endpoints[jobs[j].destination_endpoint_id],
                                           transfers[t].file_name)]
    /\ wk' = [wk EXCEPT ![w].pc = "copy"]
    /\ UNCHANGED <<jobs, queue, counters, now, sched, tickets, calls, tstats, events, s3>>

\* str(e) of what the try block of _execute_transfer raises once the
\* destination is written: the copy exits non-zero (line 545); any other
\* exception there takes the same handlers with another text
TransferErrors == {"Rclone failed"}

\* mutation: the first failure ends the loop over the transfers
NextTransfer_StopAtFailure(w, error) ==
    IF wk[w].idx = Len(wk[w].tlist) \/ error # NULL
    THEN [wk[w] EXCEPT !.pc = "summary", !.idx = 0]
    ELSE [wk[w] EXCEPT !.pc = "transfer", !.idx = @ + 1]

\* execute_job lines 192-226: the for loop goes to the next transfer whether
\* this one returned or raised
NextTransfer(w, error) ==
    IF wk[w].idx = Len(wk[w].tlist)
    THEN [wk[w] EXCEPT !.pc = "summary", !.idx = 0]
    ELSE [wk[w] EXCEPT !.pc = "transfer", !.idx = @ + 1]

\* _execute_transfer, lines 404-429 and execute_job lines 192-226: the copy
\* ends well or the try block raises, the row is committed, the loop goes on
WorkerEndTransfer(w) ==
    LET t == wk[w].tlist[wk[w].idx] IN
    /\ wk[w].pc = "copy"
    /\ \E error \in {NULL} \cup TransferErrors :
        /\ transfers' = [transfers EXCEPT
              ![t].status = IF error = NULL THEN "completed" ELSE "failed",
              ![t].error_message = error]
        /\ wk' = [wk EXCEPT ![w] = NextTransfer(w, error)]
    /\ UNCHANGED <<jobs, queue, counters, now, sched, tickets, calls, tstats, events, s3>>

\* mutation: one successful transfer is enough
AllSucceeded_AnySucceeded(tlist) ==
    \E i \in 1..Len(tlist) : transfers[tlist[i]].status = "completed"

\* execute_job line 239: success_count == len(transfers); a transfer counts
\* as a success when _execute_transfer returned, which left it COMPLETED
AllSucceeded(tlist) == \A i \in 1..Len(tlist) : transfers[tlist[i]].status = "completed"

RECURSIVE EnqueueAll(_, _, _)
EnqueueAll(q, tk, ids) ==
    IF ids = <<>> THEN <<q, tk>>
    ELSE EnqueueAll(Enqueued(q, tk, Head(ids), 0, 0), Ticketed(q, tk, Head(ids)), Tail(ids))

\* _process_chain_jobs, lines 575-596: the per-file chain jobs of a parent
\* whose config carries chain_rules
ChainJobsFor(parent_id, tlist) ==
    IF tlist # <<>> /\ "chain_rules" \in DOMAIN jobs[parent_id].config
    THEN CreateChainJobs(parent_id, jobs[parent_id], jobs[parent_id].config.chain_rules, tlist)
    ELSE <<>>

\* _process_chain_jobs, lines 599-606: the chain jobs waiting for the parent
PendingChainJobs(js, parent_id) ==
    SelectSeq([i \in 1..Len(js) |-> i],
              LAMBDA c : js[c].type = "chained" /\ js[c].parent_job_id = parent_id
                         /\ js[c].status = "pending")

\* execute_job, lines 238-252, with _process_chain_jobs
WorkerSummary(w) ==
    LET j        == wk[w].job_id
        created  == ChainJobsFor(j, wk[w].tlist)
        done     == [jobs EXCEPT ![j].status = "completed", ![j].completed_at = At(now),
                                 ![j].successful_runs = wk[w].loaded.successful_runs + 1,
                                 ![j].total_runs = wk[w].loaded.total_runs + 1]
        withNew  == done \o created
        waiting  == PendingChainJobs(withNew, j)
        enq      == EnqueueAll(queue, tickets, waiting)
    IN
    /\ wk[w].pc = "summary"
    /\ IF AllSucceeded(wk[w].tlist)
       THEN /\ Len(jobs) + Len(created) <= MaxJobs
            /\ jobs' = [c \in 1..Len(withNew) |->
                          IF \E i \in 1..Len(waiting) : waiting[i] = c
                          THEN [withNew[c] EXCEPT !.status = "queued"]
                          ELSE withNew[c]]
            /\ queue' = enq[1]
            /\ tickets' = enq[2]
            /\ tstats' = IF "transfer_template_id" \in DOMAIN jobs[j].config
                         THEN [tstats EXCEPT
                                 ![jobs[j].config.transfer_template_id].successful_transfers = @ + 1]
                         ELSE tstats
       ELSE /\ jobs' = [jobs EXCEPT ![j].status = "failed", ![j].completed_at = At(now),
                                    ![j].failed_runs = wk[w].loaded.failed_runs + 1,
                                    ![j].total_runs = wk[w].loaded.total_runs + 1]
            /\ UNCHANGED <<queue, tickets, tstats>>
    /\ wk' = [wk EXCEPT ![w] = IdleWorker]
    /\ UNCHANGED <<transfers, counters, now, sched, calls, events, s3>>

\* JobProcessor.stop, lines 63-75, called on SIGINT or SIGTERM. While a copy
\* runs its task is in current_transfers and is cancelled: the
\* CancelledError comes out of `await transfer_task`, _execute_transfer
\* commits the transfer CANCELLED and raises it again (421-424), and since
\* CancelledError is no Exception it passes the handlers of execute_job,
\* process_next_job and start (213, 254, 112, 59): the process ends. A
\* worker that waits for the queue just ends its loop. (A stop at any other
\* point lets the run go on to its end, as if it had come after it.)
WorkerStop(w) ==
    /\ wk[w].pc \in {"idle", "copy"}
    /\ IF wk[w].pc = "copy"
       THEN transfers' = [transfers EXCEPT ![wk[w].tlist[wk[w].idx]].status = "cancelled"]
       ELSE UNCHANGED transfers
    /\ wk' = [wk EXCEPT ![w] = [IdleWorker EXCEPT !.pc = "stopped"]]
    /\ UNCHANGED <<jobs, queue, counters, now, sched, tickets, calls, tstats, events, s3>>

WorkerStep(w) ==
    \/ WorkerPeek(w)
    \/ WorkerTake(w)
    \/ WorkerExecuteJob(w)
    \/ WorkerBeginTransfer(w)
    \/ WorkerResolveTransfer(w)
    \/ WorkerEndTransfer(w)
    \/ WorkerSummary(w)

\* ------------------------------------------------------------ the REST calls

\* POST /jobs (create_job): the endpoints must exist; the job is PENDING
ApiCreateJob(req) ==
    /\ calls < MaxCalls
    /\ Len(jobs) < MaxJobs
    /\ req.source_endpoint_id \in EndpointIds
    /\ req.destination_endpoint_id \in EndpointIds
    /\ jobs' = Append(jobs, NewJob(req.type, "pending", req.source_endpoint_id, req.source_path,
                                   req.destination_endpoint_id, req.destination_path,
                                   req.file_pattern, 0, req.config))
    /\ calls' = calls + 1
    /\ UNCHANGED <<transfers, queue, counters, now, wk, sched, tickets, tstats, events, s3>>

\* POST /jobs/{id}/execute (execute_job)
ApiExecuteJob(j) ==
    /\ calls < MaxCalls
    /\ jobs[j].is_active
    /\ jobs[j].status # "running"
    /\ queue' = Enqueued(queue, tickets, j, 0, 0)
    /\ tickets' = Ticketed(queue, tickets, j)
    /\ jobs' = [jobs EXCEPT ![j].status = "queued"]
    /\ calls' = calls + 1
    /\ UNCHANGED <<transfers, counters, now, wk, sched, tstats, events, s3>>

\* POST /jobs/{id}/cancel (cancel_job)
ApiCancelJob(j) ==
    /\ calls < MaxCalls
    /\ jobs[j].status \in {"running", "queued"}
    /\ jobs' = [jobs EXCEPT ![j].status = "cancelled"]
    /\ calls' = calls + 1
    /\ UNCHANGED <<transfers, queue, counters, now, wk, sched, tickets, tstats, events, s3>>

\* POST /transfer-templates/{id}/execute (execute_transfer_template)
ApiExecuteTemplate(tid) ==
    LET template == Templates[tid]
        job == NewJob("manual", "queued",
                      template.source_endpoint_id,
                      IF "path" \in DOMAIN template.source_config
                      THEN template.source_config.path ELSE <<>>,
                      template.destination_endpoint_id,
                      Replace(template.destination_path_template, "{filename}", <<"*">>),
                      IF template.file_pattern = <<>> THEN <<"*">> ELSE template.file_pattern,
                      0,
                      [transfer_template_id |-> tid, manual_execution |-> TRUE])
        id == Len(jobs) + 1
        chain_jobs == IF template.chain_rules # <<>>
                      THEN CreateChainJobs(id, job, template.chain_rules, NotGiven)
                      ELSE <<>>
    IN
    /\ calls < MaxCalls
    /\ template.is_active
    /\ Len(jobs) + 1 + Len(chain_jobs) <= MaxJobs
    /\ jobs' = Append(jobs, job) \o chain_jobs
    /\ queue' = Enqueued(queue, tickets, id, 0, 0)
    /\ tickets' = Ticketed(queue, tickets, id)
    /\ calls' = calls + 1
    /\ tstats' = [tstats EXCEPT ![tid].total_triggers = @ + 1]
    /\ UNCHANGED <<transfers, counters, now, wk, sched, events, s3>>

\* --------------------------------------------------------- the event monitor

\* the columns of the transfer_templates table (models/transfer_template.py);
\* reading any other attribute of a TransferTemplate raises AttributeError
TransferTemplateColumns ==
    {"id", "name", "description", "event_type", "is_active", "source_config",
     "source_endpoint_id", "destination_endpoint_id", "destination_path_template",
     "chain_rules", "file_pattern", "delete_source_after_transfer", "created_at",
     "updated_at", "last_triggered", "total_triggers", "successful_transfers",
     "failed_transfers"}

\* events the file watcher hands to process_event
Events ==
    { [type |-> "file:created", file_path |-> <<"/", "inbox", "/", "clip", ".", "mov">>],
      [type |-> "file:created", file_path |-> <<"/", "other", "/", "clip", ".", "mov">>] }

\* str.startswith for whole strings
IsPrefix(a, s) == Len(a) <= Len(s) /\ SubSeq(s, 1, Len(a)) = a

\* EventMonitor._matches_template, for file events
MatchesTemplate(event_data, template) ==
    /\ \/ template.file_pattern = <<>>
       \/ template.file_pattern = <<"*">>
       \/ Matches(Basename(event_data.file_path), template.file_pattern)
    /\ \/ template.event_type \notin {"file:created", "file:modified"}
       \/ "watch_path" \notin DOMAIN template.source_config
       \/ IsPrefix(template.source_config.watch_path, event_data.file_path)

\* process_event, lines 53-63: the active templates of the monitor's event
\* type that match the event, in the order of the query
MatchingTemplates(event_data) ==
    LET hit == {tid \in TemplateIds : /\ Templates[tid].event_type = event_data.type
                                      /\ Templates[tid].is_active
                                      /\ MatchesTemplate(event_data, Templates[tid])}
        RECURSIVE InOrder(_)
        InOrder(S) == IF S = {} THEN <<>>
                      ELSE LET tid == CHOOSE x \in S : TRUE
                           IN  <<tid>> \o InOrder(S \ {tid})
    IN  InOrder(hit)

\* EventMonitor._trigger_transfer, lines 117-141: the job of one event and
\* one template
EventJob(tid, event_data) ==
    NewJob("event_triggered", "queued",
           Templates[tid].source_endpoint_id,
           event_data.file_path,
           Templates[tid].destination_endpoint_id,
           WorkerApplyPathTemplate(Templates[tid].destination_path_template,
                                   event_data.file_path),
           IF Templates[tid].file_pattern = <<>> THEN <<"*">> ELSE Templates[tid].file_pattern,
           0,
           [transfer_template_id |-> tid, event_data |-> event_data,
            chain_templates |-> Templates[tid].chain_rules])

\* EventMonitor._create_chain_jobs: one PENDING job per chain entry
EventChainJobs(parent_id, parent, chain_templates) ==
    [i \in 1..Len(chain_templates) |->
        NewJob("chained", "pending",
               parent.destination_endpoint_id,
               parent.destination_path,
               chain_templates[i].endpoint_id,
               WorkerApplyPathTemplate(chain_templates[i].path_template,
                                       parent.destination_path),
               parent.file_pattern,
               0,
               [parent_job_id |-> parent_id, chain_index |-> i - 1])]

\* _trigger_transfer for each matching template in turn.  The job's config
\* is built from template.chain_templates (line 131); the read raises when
\* the template has no such attribute, and the except clause rolls back.
RECURSIVE TriggerTransfers(_, _, _, _, _, _)
TriggerTransfers(js, q, tk, ts, tids, event_data) ==
    IF tids = <<>> THEN <<js, q, tk, ts>>
    ELSE LET tid == Head(tids)
             id  == Len(js) + 1
             job == EventJob(tid, event_data)
         IN  IF "chain_templates" \in TransferTemplateColumns
             THEN TriggerTransfers(
                      Append(js, job) \o EventChainJobs(id, job, Templates[tid].chain_rules),
                      Enqueued(q, tk, id, 0, 0), Ticketed(q, tk, id),
                      [ts EXCEPT ![tid].total_triggers = @ + 1],
                      Tail(tids), event_data)
             ELSE TriggerTransfers(js, q, tk, ts, Tail(tids), event_data)

\* events the model lets the monitors deliver
MaxEvents == 2

\* EventMonitor.process_event
ProcessEvent(event_data) ==
    LET out == TriggerTransfers(jobs, queue, tickets, tstats,
                                MatchingTemplates(event_data), event_data)
    IN
    /\ Len(events) < MaxEvents
    /\ Len(out[1]) <= MaxJobs
    /\ jobs' = out[1]
    /\ queue' = out[2]
    /\ tickets' = out[3]
    /\ tstats' = out[4]
    /\ events' = Append(events, event_data)
    /\ UNCHANGED <<transfers, counters, now, wk, sched, calls, s3>>

\* ------------------------------------------------------ the S3 event monitor

\* S3EventMonitor._polling_interval, in seconds
PollingInterval == 30
\* MaxKeys of list_objects_v2
MaxKeys == 100
\* the size beyond which the processed events are cut down, and the size
\* they are cut down to
ProcessedEventsLimit == 10000
ProcessedEventsKept == 5000

\* rounds of the monitor loop the model follows
MaxPolls == 103

\* aws_config['monitored_buckets']: one bucket, no prefix
MonitoredBucket == "media"
\* the key the model watches, and the ETags its uploads may have
WatchedKey == "a.mov"
ETags == {"e1", "e2"}
\* new objects under other keys that every listing shows as well: a busy
\* bucket, the listing is full
FreshPerPoll == MaxKeys - 1

\* line 106: f"{bucket_name}:{obj['Key']}:{obj['ETag']}"
EventId(bucket_name, obj) == <<bucket_name, ":", obj.Key, ":", obj.ETag>>

\* lines 119-127: the event of one object
S3EventData(bucket_name, obj) ==
    [type |-> "s3:ObjectCreated", bucket |-> bucket_name, key |-> obj.Key,
     etag |-> obj.ETag, last_modified |-> obj.LastModified,
     file_path |-> <<"s3://", bucket_name, "/", obj.Key>>, event_time |-> now]

\* len(self._processed_events)
ProcessedLen(pe) == Cardinality(pe.tracked) + pe.others

\* line 135: set(list(self._processed_events)[-5000:]).  The order of a
\* set's elements is the order of their hashes, not of their arrival, so the
\* 5000 ids kept may be any 5000 of the set.
Trimmed(pe) ==
    { [tracked |-> kept, others |-> ProcessedEventsKept - Cardinality(kept)] :
        kept \in { k \in SUBSET pe.tracked : ProcessedEventsKept - Cardinality(k) <= pe.others } }

\* lines 130-135: the set after one id was added
AfterAdd(pe) == IF ProcessedLen(pe) > ProcessedEventsLimit THEN Trimmed(pe) ELSE {pe}

\* lines 104-135 for n objects of other keys, all new and none seen before:
\* each is dispatched and its id added, and the set is cut down after the
\* add that takes it beyond the limit
RECURSIVE AfterFresh(_, _)
AfterFresh(pe, n) ==
    IF ProcessedLen(pe) + n <= ProcessedEventsLimit
    THEN {[pe EXCEPT !.others = @ + n]}
    ELSE LET k == ProcessedEventsLimit + 1 - ProcessedLen(pe)
         IN  UNION { AfterFresh(t, n - k) : t \in Trimmed([pe EXCEPT !.others = @ + k]) }

\* an upload to the watched key
PutObject(etag) ==
    /\ s3.Contents = <<>>
    /\ s3' = [s3 EXCEPT !.Contents = <<[Key |-> WatchedKey, ETag |-> etag, LastModified |-> now]>>]
    /\ UNCHANGED <<jobs, transfers, queue, counters, now, wk, sched, tickets, calls, tstats, events>>

\* one round of S3EventMonitor._monitor_loop: _check_s3_events, then the
\* sleep.  The watched key sorts before the other keys of the listing.
\* process_event runs for every object dispatched; events records those of
\* the watched key.
CheckS3Events ==
    LET pe      == s3.processed_events
        obj     == s3.Contents[1]
        is_new  == /\ s3.Contents # <<>>
                   /\ EventId(MonitoredBucket, obj) \notin pe.tracked
                   /\ ~(now - obj.LastModified > PollingInterval * 2)
        event_data == S3EventData(MonitoredBucket, obj)
        out     == IF is_new
                   THEN TriggerTransfers(jobs, queue, tickets, tstats,
                                         MatchingTemplates(event_data), event_data)
                   ELSE <<jobs, queue, tickets, tstats>>
        watched == IF is_new
                   THEN AfterAdd([pe EXCEPT !.tracked = @ \cup {EventId(MonitoredBucket, obj)}])
                   ELSE {pe}
    IN
    /\ now < Clock.start + MaxPolls * PollingInterval
    /\ \E seen \in watched : \E after \in AfterFresh(seen, FreshPerPoll) :
           s3' = [s3 EXCEPT !.processed_events = after]
    /\ jobs' = out[1]
    /\ queue' = out[2]
    /\ tickets' = out[3]
    /\ tstats' = out[4]
    /\ events' = IF is_new THEN Append(events, event_data) ELSE events
    /\ now' = now + PollingInterval
    /\ UNCHANGED <<transfers, counters, wk, sched, calls>>

\* ------------------------------------------------------------ the scheduler

\* the methods RedisManager defines (redis_manager.py); a call of any other
\* name raises AttributeError
RedisManagerMethods ==
    {"connect", "disconnect", "enqueue_job", "dequeue_job", "get_queue_length",
     "set_job_status", "get_job_status", "increment_endpoint_counter",
     "decrement_endpoint_counter", "get_endpoint_counter", "reset_endpoint_counter",
     "publish_event", "subscribe"}

\* cron expressions of scheduled jobs and the period, in seconds, of those
\* croniter accepts; any other string makes croniter raise
CronPeriod ==
    [every_minute |-> 60, every_2_minutes |-> 120]

Schedules == {"every_minute", "every_2_minutes", "not a cron line"}

\* JobScheduler._calculate_next_run: croniter(schedule, now).get_next(), the
\* first occurrence after now; None for no schedule or one croniter rejects
CalculateNextRun(schedule) ==
    IF schedule = NULL \/ schedule \notin DOMAIN CronPeriod THEN NoTime
    ELSE At(((now \div CronPeriod[schedule]) + 1) * CronPeriod[schedule])

\* JobScheduler._check_interval
CheckInterval == 60

\* POST /jobs with type SCHEDULED: create_job stores the schedule and leaves
\* next_run_at empty
ApiCreateScheduledJob(schedule) ==
    /\ calls < MaxCalls
    /\ Len(jobs) < MaxJobs
    /\ jobs' = Append(jobs,
                 [NewJob("scheduled", "pending", "ep_local", <<"/", "src">>, "ep_local",
                         <<"/", "dst">>, <<"*">>, 0, <<>>)
                  EXCEPT !.schedule = schedule])
    /\ calls' = calls + 1
    /\ UNCHANGED <<transfers, queue, counters, now, wk, sched, tickets, tstats, events, s3>>

\* PUT /jobs/{id} (update_job) with a new schedule: refused while the job is
\* RUNNING; the string is stored as it is given
ApiUpdateJobSchedule(j, schedule) ==
    /\ calls < MaxCalls
    /\ jobs[j].status # "running"
    /\ jobs' = [jobs EXCEPT ![j].schedule = schedule]
    /\ calls' = calls + 1
    /\ UNCHANGED <<transfers, queue, counters, now, wk, sched, tickets, tstats, events, s3>>

ScheduledActive(j) == jobs[j].type = "scheduled" /\ jobs[j].is_active

\* JobScheduler.start with _update_all_next_run_times; the loop task it
\* creates makes its first check without sleeping
SchedulerStart ==
    /\ ~sched.running
    /\ jobs' = [j \in JobIds |->
                  IF ScheduledActive(j) /\ jobs[j].schedule # NULL
                     /\ CalculateNextRun(jobs[j].schedule) # NoTime
                  THEN [jobs[j] EXCEPT !.next_run_at = CalculateNextRun(jobs[j].schedule)]
                  ELSE jobs[j]]
    /\ sched' = [running |-> TRUE, wake_at |-> now, checks |-> 0,
                 jobs_at_start |-> Len(jobs),
                 missed |-> {j \in JobIds : /\ ScheduledActive(j)
                                            /\ jobs[j].next_run_at # NoTime
                                            /\ jobs[j].next_run_at[1] <= now}]
    /\ UNCHANGED <<transfers, queue, counters, now, wk, tickets, calls, tstats, events, s3>>

\* JobScheduler.stop
SchedulerStop ==
    /\ sched.running
    /\ sched' = [sched EXCEPT !.running = FALSE]
    /\ UNCHANGED <<jobs, transfers, queue, counters, now, wk, tickets, calls, tstats, events, s3>>

\* _check_scheduled_jobs, lines 74-81: the jobs that are due
DueScheduled ==
    SelectSeq([i \in 1..Len(jobs) |-> i],
              LAMBDA j : ScheduledActive(j) /\ jobs[j].next_run_at # NoTime
                         /\ jobs[j].next_run_at[1] <= now)

\* _execute_scheduled_job, lines 107-125: the copy made for one execution
ExecutionJob(j) ==
    NewJob("manual", "queued", jobs[j].source_endpoint_id, jobs[j].source_path,
           jobs[j].destination_endpoint_id, jobs[j].destination_path,
           jobs[j].file_pattern, 0,
           [scheduled_job_id |-> j, scheduled_execution |-> TRUE])

\* _execute_scheduled_job for every due job in turn: statistics, next run,
\* the copy is committed, then redis_manager.queue_job is called
RECURSIVE ExecuteScheduledJobs(_, _, _, _)
ExecuteScheduledJobs(js, q, tk, due) ==
    IF due = <<>> THEN <<js, q, tk>>
    ELSE LET j     == Head(due)
             fired == [js EXCEPT ![j].total_runs = @ + 1,
                                 ![j].next_run_at = CalculateNextRun(js[j].schedule)]
             added == Append(fired, ExecutionJob(j))
             id    == Len(added)
         IN  IF "queue_job" \in RedisManagerMethods
             THEN ExecuteScheduledJobs(added, Enqueued(q, tk, id, 0, 0),
                                       Ticketed(q, tk, id), Tail(due))
             ELSE ExecuteScheduledJobs(added, q, tk, Tail(due))

\* one turn of _scheduler_loop: _check_scheduled_jobs, then sleep
SchedulerCheck ==
    LET out == ExecuteScheduledJobs(jobs, queue, tickets, DueScheduled) IN
    /\ sched.running
    /\ now >= sched.wake_at
    /\ Len(jobs) + Len(DueScheduled) <= MaxJobs
    /\ jobs' = out[1]
    /\ queue' = out[2]
    /\ tickets' = out[3]
    /\ sched' = [sched EXCEPT !.wake_at = now + CheckInterval, !.checks = @ + 1]
    /\ UNCHANGED <<transfers, counters, now, wk, calls, tstats, events, s3>>

\* the wall clock advances
Tick ==
    /\ now < Clock.start + MaxTicks * Clock.step
    /\ now' = now + Clock.step
    /\ UNCHANGED <<jobs, transfers, queue, counters, wk, sched, tickets, calls, tstats, events, s3>>

\* ------------------------------------------- RedisManager driven directly

\* arguments of enqueue_job: priorities and delays in seconds
Priorities == {0, 1}
Delays == {0, 60}

\* RedisManager.enqueue_job called by any client
QueueEnqueue(job_id, priority, delay) ==
    /\ calls < MaxCalls
    /\ queue' = Enqueued(queue, tickets, job_id, priority, delay)
    /\ tickets' = Ticketed(queue, tickets, job_id)
    /\ calls' = calls + 1
    /\ UNCHANGED <<jobs, transfers, counters, now, wk, sched, tstats, events, s3>>

\* dequeue_job lines 64-66: ZREM, then the id read before is returned
QueueRemove(c) ==
    /\ wk[c].pc = "peeked"
    /\ queue' = Removed(queue, wk[c].job_id)
    /\ tickets' = [tickets EXCEPT ![wk[c].ticket] = @ + 1]
    /\ wk' = [wk EXCEPT ![c].pc = "dequeued"]
    /\ UNCHANGED <<jobs, transfers, counters, now, sched, calls, tstats, events, s3>>

\* the caller of dequeue_job is done with what it was given
QueueReturn(c) ==
    /\ wk[c].pc = "dequeued"
    /\ wk' = [wk EXCEPT ![c] = IdleWorker]
    /\ UNCHANGED <<jobs, transfers, queue, counters, now, sched, tickets, calls, tstats, events, s3>>

\* increment_endpoint_counter: one INCR
CounterIncrement(endpoint_id) ==
    /\ counters[endpoint_id] < MaxCalls
    /\ counters' = [counters EXCEPT ![endpoint_id] = @ + 1]
    /\ UNCHANGED <<jobs, transfers, queue, now, wk, sched, tickets, calls, tstats, events, s3>>

\* decrement_endpoint_counter lines 96-99: DECR, and the test of what came back
CounterDecrement(c, endpoint_id) ==
    /\ wk[c].pc \in {"idle", "got"}
    /\ counters' = [counters EXCEPT ![endpoint_id] = @ - 1]
    /\ wk' = [wk EXCEPT ![c] =
                IF counters'[endpoint_id] < 0
                THEN [pc |-> "clamp", endpoint_id |-> endpoint_id]
                ELSE IdleWorker]
    /\ UNCHANGED <<jobs, transfers, queue, now, sched, tickets, calls, tstats, events, s3>>

\* decrement_endpoint_counter lines 100-101: the SET 0 that follows a negative DECR
CounterClamp(c) ==
    /\ wk[c].pc = "clamp"
    /\ counters' = [counters EXCEPT ![wk[c].endpoint_id] = 0]
    /\ wk' = [wk EXCEPT ![c] = IdleWorker]
    /\ UNCHANGED <<jobs, transfers, queue, now, sched, tickets, calls, tstats, events, s3>>

\* get_endpoint_counter: GET and int(); the caller holds the value until its
\* next call
CounterGet(c, endpoint_id) ==
    /\ wk[c].pc \in {"idle", "got"}
    /\ wk' = [wk EXCEPT ![c] =
                [pc |-> "got", endpoint_id |-> endpoint_id, value |-> counters[endpoint_id]]]
    /\ UNCHANGED <<jobs, transfers, queue, counters, now, sched, tickets, calls, tstats, events, s3>>

\* reset_endpoint_counter: SET 0
CounterReset(endpoint_id) ==
    /\ counters' = [counters EXCEPT ![endpoint_id] = 0]
    /\ UNCHANGED <<jobs, transfers, queue, now, wk, sched, tickets, calls, tstats, events, s3>>

\* ------------------------------------- ChainJobService driven directly

\* a parent job as a finished run leaves it, with the Transfer rows of that run
ChainParent(req) ==
    [NewJob(req.type, "completed", req.source_endpoint_id, req.source_path,
            req.destination_endpoint_id, req.destination_path, req.file_pattern, 0,
            req.config)
        EXCEPT !.completed_at = At(Clock.start), !.total_runs = 1, !.successful_runs = 1]

ChainParentTransfers(parent, files) ==
    [i \in 1..Len(files) |->
        [NewTransfer(1, files[i]) EXCEPT
            !.status = "completed", !.started_at = At(Clock.start),
            !.destination_path =
                ResolveDestination(parent.destination_path,
                                   Endpoints[parent.destination_endpoint_id], files[i])]]

InitChain ==
    /\ \E req \in JobRequests :
        /\ jobs = <<ChainParent(req)>>
        /\ \E files \in Listings(ChainParent(req)) :
              transfers = ChainParentTransfers(ChainParent(req), files)
    /\ queue = <<>>
    /\ counters = [e \in EndpointIds |-> 0]
    /\ now = Clock.start
    /\ wk = [w \in Workers |-> IdleWorker]
    /\ sched = [running |-> FALSE, wake_at |-> 0, checks |-> 0, jobs_at_start |-> 0,
                missed |-> {}]
    /\ tickets = <<>>
    /\ calls = 0
    /\ tstats = [tid \in TemplateIds |-> [total_triggers |-> 0, successful_transfers |-> 0]]
    /\ events = <<>>
    /\ s3 = S3Start

\* the Transfer rows of a job, in the order of the table
TransfersOf(job_id) ==
    SelectSeq([t \in 1..Len(transfers) |-> t], LAMBDA t : transfers[t].job_id = job_id)

\* ChainJobService.create_chain_jobs called once for the job drawn at the
\* start: without a transfer list, with an empty one, or with the job's transfers
ChainCreate(parent_id, chain_rules, per_file_transfers) ==
    LET created == CreateChainJobs(parent_id, jobs[parent_id], chain_rules, per_file_transfers) IN
    /\ calls = 0
    /\ Len(jobs) + Len(created) <= MaxJobs
    /\ jobs' = jobs \o created
    /\ calls' = calls + 1
    /\ UNCHANGED <<transfers, queue, counters, now, wk, sched, tickets, tstats, events, s3>>

\* ---------------------------------------- ThrottleController driven directly

\* slots a worker holds on an endpoint: acquire_slot calls of its own that
\* returned True and that it has not given back
Held(c, endpoint_id) ==
    IF "held" \in DOMAIN wk[c] THEN wk[c].held[endpoint_id] ELSE 0

HeldAll(c) == [e \in EndpointIds |-> Held(c, e)]

\* a worker between two calls of the controller
Resting(c) == wk[c].pc \in {"idle", "rest"}

\* mutation: the count after the increment is not looked at
GotSlot_Always(new_count, limit) == TRUE

\* acquire_slot line 64: the check after the increment
GotSlot(new_count, limit) == new_count <= limit

\* acquire_slot lines 55-59: the counter is read; with room the worker goes on
\* to increment, without room it sleeps and reads again or gives up
AcquireRead(c, endpoint_id) ==
    /\ Resting(c)
    /\ counters[endpoint_id] < Endpoints[endpoint_id].max_concurrent_transfers
    /\ wk' = [wk EXCEPT ![c] = [pc |-> "increment", endpoint_id |-> endpoint_id,
                                held |-> HeldAll(c)]]
    /\ UNCHANGED <<jobs, transfers, queue, counters, now, sched, tickets, calls, tstats, events, s3>>

\* acquire_slot lines 61-66: INCR and the check of the count it returned
AcquireIncrement(c) ==
    LET e == wk[c].endpoint_id IN
    /\ wk[c].pc = "increment"
    /\ counters' = [counters EXCEPT ![e] = @ + 1]
    /\ wk' = [wk EXCEPT ![c] =
                IF GotSlot(counters'[e], Endpoints[e].max_concurrent_transfers)
                THEN [pc |-> "rest", endpoint_id |-> e,
                      held |-> [HeldAll(c) EXCEPT ![e] = @ + 1]]
                ELSE [pc |-> "decrement", endpoint_id |-> e, held |-> HeldAll(c)]]
    /\ UNCHANGED <<jobs, transfers, queue, now, sched, tickets, calls, tstats, events, s3>>

\* release_slot, line 79: a slot the worker holds is given back
ReleaseSlot(c, endpoint_id) ==
    /\ Resting(c)
    /\ Held(c, endpoint_id) > 0
    /\ wk' = [wk EXCEPT ![c] = [pc |-> "decrement", endpoint_id |-> endpoint_id,
                                held |-> [HeldAll(c) EXCEPT ![endpoint_id] = @ - 1]]]
    /\ UNCHANGED <<jobs, transfers, queue, counters, now, sched, tickets, calls, tstats, events, s3>>

\* decrement_endpoint_counter as acquire_slot (line 69) and release_slot call
\* it: DECR, and in a later step SET 0 if the DECR came back negative
SlotDecrement(c) ==
    LET e == wk[c].endpoint_id IN
    /\ wk[c].pc \in {"decrement", "set_zero"}
    /\ IF wk[c].pc = "decrement"
       THEN /\ counters' = [counters EXCEPT ![e] = @ - 1]
            /\ wk' = [wk EXCEPT ![c].pc = IF counters'[e] < 0 THEN "set_zero" ELSE "rest"]
       ELSE /\ counters' = [counters EXCEPT ![e] = 0]
            /\ wk' = [wk EXCEPT ![c].pc = "rest"]
    /\ UNCHANGED <<jobs, transfers, queue, now, sched, tickets, calls, tstats, events, s3>>

\* the worker process dies and is started again: what it knew of its slots
\* is gone, the counters stay as they are in Redis (no expiry, and nothing
\* resets them when a worker starts: worker.py 43-61)
WorkerCrash(c) ==
    /\ wk[c] # IdleWorker
    /\ wk' = [wk EXCEPT ![c] = IdleWorker]
    /\ UNCHANGED <<jobs, transfers, queue, counters, now, sched, tickets, calls, tstats, events, s3>>

\* ------------------------------------------------------- the specifications

\* one worker process with the REST surface
Next ==
    \/ WorkerStep("w1")
    \/ \E req \in JobRequests : ApiCreateJob(req)
    \/ ApiCreateScheduledJob("every_minute")
    \/ \E j \in JobIds : ApiExecuteJob(j)
    \/ \E j \in JobIds : ApiCancelJob(j)
    \/ \E tid \in TemplateIds : ApiExecuteTemplate(tid)

Spec == Init /\ [][Next]_vars

\* the same, with a worker that may be told to stop
NextStop ==
    \/ Next
    \/ WorkerStop("w1")

SpecStop == Init /\ [][NextStop]_vars

\* several worker processes polling the same queue
NextRace ==
    \/ \E w \in Workers : WorkerStep(w)
    \/ \E j \in JobIds : ApiExecuteJob(j)
    \/ \E tid \in TemplateIds : ApiExecuteTemplate(tid)

SpecRace == Init /\ [][NextRace]_vars

\* the scheduler process, the clock and the scheduled jobs
NextSched ==
    \/ \E schedule \in Schedules : ApiCreateScheduledJob(schedule)
    \/ \E j \in JobIds, schedule \in Schedules : ApiUpdateJobSchedule(j, schedule)
    \/ SchedulerStart
    \/ SchedulerStop
    \/ SchedulerCheck
    \/ Tick

SpecSched == Init /\ [][NextSched]_vars

\* workers that take slots with acquire_slot and give them back with
\* release_slot
NextThrottle ==
    \/ \E c \in Workers, e \in EndpointIds : AcquireRead(c, e)
    \/ \E c \in Workers : AcquireIncrement(c)
    \/ \E c \in Workers, e \in EndpointIds : ReleaseSlot(c, e)
    \/ \E c \in Workers : SlotDecrement(c)

SpecThrottle == Init /\ [][NextThrottle]_vars

\* the same workers, any of which may die at any point; a live worker keeps
\* asking for slots (acquire_slot polls every second) and a call that has
\* begun runs to its end
NextCrash ==
    \/ NextThrottle
    \/ \E c \in Workers : WorkerCrash(c)

SpecCrash ==
    /\ Init
    /\ [][NextCrash]_vars
    /\ \A c \in Workers :
          /\ WF_vars(AcquireIncrement(c))
          /\ WF_vars(SlotDecrement(c))
          /\ \A e \in EndpointIds : SF_vars(AcquireRead(c, e))

\* a chain rule whose path_template holds one token of the expander table
TokenRule(token) ==
    [endpoint_id |-> "ep_local", path_template |-> <<"/", "out", "/", token>>]

\* the chain generator expanding templates of every token, for the files of
\* the job drawn at the start
NextExpand ==
    \E parent_id \in JobIds, token \in TemplateTokens :
        \E per_file_transfers \in {NotGiven, TransfersOf(parent_id)} :
            ChainCreate(parent_id, <<TokenRule(token)>>, per_file_transfers)

SpecExpand == InitChain /\ [][NextExpand]_vars

\* callers of the chain generator
NextChain ==
    \E parent_id \in JobIds, chain_rules \in ChainRuleLists :
        \E per_file_transfers \in {NotGiven, <<>>, TransfersOf(parent_id)} :
            ChainCreate(parent_id, chain_rules, per_file_transfers)

SpecChain == InitChain /\ [][NextChain]_vars

\* clients of the queue: enqueue_job and dequeue_job with any arguments
NextQueue ==
    \/ \E job_id \in 1..MaxJobs, priority \in Priorities, delay \in Delays :
          QueueEnqueue(job_id, priority, delay)
    \/ \E c \in Workers : WorkerPeek(c)
    \/ \E c \in Workers : QueueRemove(c)
    \/ \E c \in Workers : QueueReturn(c)
    \/ Tick

SpecQueue == Init /\ [][NextQueue]_vars

\* clients of the endpoint counters
NextCounters ==
    \/ \E e \in EndpointIds : CounterIncrement(e)
    \/ \E c \in Workers, e \in EndpointIds : CounterDecrement(c, e)
    \/ \E c \in Workers : CounterClamp(c)
    \/ \E c \in Workers, e \in EndpointIds : CounterGet(c, e)
    \/ \E e \in EndpointIds : CounterReset(e)

SpecCounters == Init /\ [][NextCounters]_vars

\* the event monitor beside one worker and template execution
NextEvents ==
    \/ \E event_data \in Events : ProcessEvent(event_data)
    \/ \E tid \in TemplateIds : ApiExecuteTemplate(tid)
    \/ WorkerStep("w1")

SpecEvents == Init /\ [][NextEvents]_vars

\* the S3 event monitor polling a busy bucket
NextS3 ==
    \/ \E etag \in ETags : PutObject(etag)
    \/ CheckS3Events

SpecS3 == Init /\ [][NextS3]_vars

\* ================================================================ the claims

\* transfers IN_PROGRESS whose job reads from or writes to endpoint e
InProgressOn(e) ==
    {t \in TransferIds : /\ transfers[t].status = "in_progress"
                         /\ \/ jobs[transfers[t].job_id].source_endpoint_id = e
                            \/ jobs[transfers[t].job_id].destination_endpoint_id = e}

\* C2: no queue entry is handed to more than one worker: of the workers that
\* dequeue concurrently, at most one is given a particular entry.
C2_EntryDequeuedOnce ==
    \A k \in 1..Len(tickets) : tickets[k] <= 1

\* C1: at every moment the number of IN_PROGRESS transfers that use an
\* endpoint is at most that endpoint's max_concurrent_transfers. Stated for
\* the runs in which every queue entry went to one worker only, so that the
\* transfers counted belong to different jobs.
C1_InProgressWithinLimit ==
    (\A k \in 1..Len(tickets) : tickets[k] <= 1)
    => \A e \in EndpointIds :
          Cardinality(InProgressOn(e)) <= Endpoints[e].max_concurrent_transfers

\* the jobs whose parent_job_id is p, and the COMPLETED transfers of job p
ChildrenOf(js, p) == {c \in 1..Len(js) : js[c].parent_job_id = p}
CompletedTransfersOf(p) ==
    {t \in TransferIds : transfers[t].job_id = p /\ transfers[t].status = "completed"}

HasChainRules(p) ==
    "chain_rules" \in DOMAIN jobs[p].config /\ jobs[p].config.chain_rules # <<>>

UsableRules(chain_rules) == SelectSeq(chain_rules, RuleUsable)

\* worker w finishes an execution in this step
Finishes(w) == wk[w].pc = "summary" /\ wk'[w].pc = "idle"

\* C3, as the specification states it: a COMPLETED parent with non-empty
\* chain_rules and a non-empty set of COMPLETED transfers has exactly
\* |chain_rules| x |COMPLETED transfers| jobs with its parent_job_id.
C3_OneJobPerRuleAndTransfer ==
    \A p \in JobIds :
        (jobs[p].status = "completed" /\ HasChainRules(p) /\ CompletedTransfersOf(p) # {})
        => Cardinality(ChildrenOf(jobs, p))
             = Len(jobs[p].config.chain_rules) * Cardinality(CompletedTransfersOf(p))

\* C3, amended: the post-completion step of an execution that ends COMPLETED,
\* for a parent with non-empty chain_rules, adds exactly one job with the
\* parent's id per transfer of that execution and per rule that carries both
\* endpoint_id and path_template; rules without them are skipped.
C3_OneJobPerUsableRuleAndTransfer ==
    [][\A w \in Workers :
        LET p == wk[w].job_id IN
        (Finishes(w) /\ jobs'[p].status = "completed" /\ HasChainRules(p))
        => /\ Cardinality(ChildrenOf(jobs', p) \ JobIds)
                = Len(UsableRules(jobs[p].config.chain_rules)) * Len(wk[w].tlist)
           /\ Len(jobs') - Len(jobs) = Cardinality(ChildrenOf(jobs', p) \ JobIds)
           /\ \A t \in CompletedTransfersOf(p) :
                 (\E i \in 1..Len(wk[w].tlist) : wk[w].tlist[i] = t)
                 => \A r \in 1..Len(jobs[p].config.chain_rules) :
                       RuleUsable(jobs[p].config.chain_rules[r])
                       => \E c \in ChildrenOf(jobs', p) \ JobIds :
                             /\ jobs'[c].config.parent_transfer_id = t
                             /\ jobs'[c].config.chain_index = r - 1]_vars

\* a parent with one usable and one unusable rule completed two transfers and
\* has two children
C3_Witness ==
    \E p \in JobIds :
        /\ jobs[p].status = "completed"
        /\ HasChainRules(p)
        /\ Len(jobs[p].config.chain_rules) = 2
        /\ Len(UsableRules(jobs[p].config.chain_rules)) = 1
        /\ Cardinality(CompletedTransfersOf(p)) = 2
        /\ Cardinality(ChildrenOf(jobs, p)) = 2

\* C4: an execution in which at least one transfer FAILED ends with the job
\* FAILED; its last step creates no job, changes no other job (no PENDING
\* chain job becomes QUEUED) and puts nothing on the queue.
C4_FailedRunStartsNoChain ==
    [][\A w \in Workers :
        LET p == wk[w].job_id IN
        (Finishes(w) /\ \E i \in 1..Len(wk[w].tlist) :
                            transfers[wk[w].tlist[i]].status = "failed")
        => /\ jobs'[p].status = "failed"
           /\ Len(jobs') = Len(jobs)
           /\ \A c \in JobIds \ {p} : jobs'[c] = jobs[c]
           /\ queue' = queue]_vars

\* a job with a FAILED transfer is FAILED, and the chain job made when it was
\* started from its template still waits PENDING, off the queue
C4_Witness ==
    \E p \in JobIds :
        /\ jobs[p].status = "failed"
        /\ \E t \in TransferIds : transfers[t].job_id = p /\ transfers[t].status = "failed"
        /\ \E c \in ChildrenOf(jobs, p) : jobs[c].type = "chained" /\ jobs[c].status = "pending"
        /\ ChildrenOf(jobs, p) \cap Queued = {}

\* the destination path of a transfer without the remote name that rclone
\* paths of non-local endpoints start with ("dest:")
WithoutRemotePrefix(path) ==
    IF Len(path) >= 2 /\ path[1] = "dest" /\ path[2] = ":"
    THEN SubSeq(path, 3, Len(path))
    ELSE path

\* C5: a per-file chain job has source_path equal to the directory part and
\* file_pattern equal to the file name of its transfer's resolved
\* destination_path with the leading remote prefix removed.
C5_ChainSourceIsTransferDestination ==
    \A c \in JobIds :
        (jobs[c].type = "chained" /\ "parent_transfer_id" \in DOMAIN jobs[c].config)
        => LET d == WithoutRemotePrefix(
                        transfers[jobs[c].config.parent_transfer_id].destination_path)
           IN  /\ jobs[c].source_path = Dirname(d)
               /\ jobs[c].file_pattern = Basename(d)

\* C6: a CHAINED job that the worker puts on the queue has, at that moment,
\* no unresolved template token in source_path or file_pattern. Stated for
\* the jobs made one per rule when a template was executed, which take
\* nothing from a transfer's destination_path.
C6_EnqueuedChainJobResolved ==
    [][\A w \in Workers :
        Finishes(w)
        => \A c \in DOMAIN queue' \ DOMAIN queue :
              (jobs'[c].type = "chained" /\ "parent_transfer_id" \notin DOMAIN jobs'[c].config)
              => /\ ~HasUnresolved(jobs'[c].source_path)
                 /\ ~HasUnresolved(jobs'[c].file_pattern)]_vars

\* C7: a Transfer that has been IN_PROGRESS has a destination_path that is
\* not null and holds no unresolved template token. Stated for the transfers
\* whose copy has ended, which have all been IN_PROGRESS.
C7_DestinationResolved ==
    \A t \in TransferIds :
        transfers[t].status \in {"completed", "failed"}
        => /\ transfers[t].destination_path # NULL
           /\ ~HasUnresolved(transfers[t].destination_path)

\* the copies the scheduler made of scheduled job s
ClonesOf(s) ==
    {c \in JobIds : /\ "scheduled_job_id" \in DOMAIN jobs[c].config
                    /\ jobs[c].config.scheduled_job_id = s}

\* C8: each firing of a scheduled job leaves exactly one copy of it, of type
\* MANUAL, QUEUED, with scheduled_execution true and the scheduled job's id,
\* and the copy's id is on the queue when the firing ends.
C8_FiringEnqueuesOneClone ==
    \A s \in JobIds :
        jobs[s].type = "scheduled"
        => /\ Cardinality(ClonesOf(s)) = jobs[s].total_runs
           /\ \A c \in ClonesOf(s) :
                 /\ jobs[c].type = "manual"
                 /\ jobs[c].status = "queued"
                 /\ jobs[c].config.scheduled_execution
                 /\ c \in Queued

\* C9: for a scheduled job whose occurrences passed while the scheduler was
\* not running, the scheduler's first check after start has made exactly one
\* copy and put it on the queue.
C9_MissedRunFiresOnceAtStart ==
    (sched.running /\ sched.checks >= 1)
    => \A s \in sched.missed :
          /\ Cardinality({c \in ClonesOf(s) : c > sched.jobs_at_start}) = 1
          /\ \A c \in ClonesOf(s) : c > sched.jobs_at_start => c \in Queued

\* C10: a job becomes RUNNING only from the stored status PENDING, QUEUED or
\* RETRYING.
C10_RunningOnlyFromRunnable ==
    [][\A j \in JobIds :
        (jobs'[j].status = "running" /\ jobs[j].status # "running")
        => jobs[j].status \in {"pending", "queued", "retrying"}]_vars

\* C11: a job cancelled while a worker is executing it stays CANCELLED: the
\* worker does not overwrite the stored status with RUNNING, COMPLETED or
\* FAILED.
C11_CancelledStaysCancelled ==
    [][\A j \in JobIds :
        (/\ jobs[j].status = "cancelled"
         /\ \E w \in Workers : wk[w].job_id = j /\ wk[w].pc \notin {"idle", "peeked"})
        => jobs'[j].status \notin {"running", "completed", "failed"}]_vars

\* C12: no job of type SCHEDULED is on the queue or RUNNING; only the MANUAL
\* copies made at a firing are.
C12_ScheduledNeverQueuedOrRunning ==
    \A j \in JobIds :
        jobs[j].type = "scheduled" => j \notin Queued /\ jobs[j].status # "running"

\* C13: every value the scheduler writes to a scheduled job's next_run_at,
\* at a firing or at startup, is non-null and later than the wall clock at
\* that moment, whatever schedule string the job stores.
C13_NextRunWrittenInFuture ==
    [][\A j \in JobIds :
        jobs'[j].next_run_at # jobs[j].next_run_at
        => /\ jobs'[j].next_run_at # NoTime
           /\ jobs'[j].next_run_at[1] > now]_vars

\* the jobs that passed the throttle check and are being executed with
\* endpoint e as source or destination
ExecutingOn(e) ==
    {wk[w].job_id : w \in {v \in Workers :
        /\ wk[v].pc \in {"transfer", "resolve", "copy", "summary"}
        /\ \/ jobs[wk[v].job_id].source_endpoint_id = e
           \/ jobs[wk[v].job_id].destination_endpoint_id = e}}

\* C14: of the jobs dequeued concurrently that need endpoint X, at most
\* max_concurrent_transfers of X run; the others are denied by the throttle
\* check, set back to QUEUED and re-enqueued with a delay of 60 seconds.
C14_ThrottleHoldsJobsBack ==
    \A e \in EndpointIds :
        Cardinality(ExecutingOn(e)) <= Endpoints[e].max_concurrent_transfers

\* the delivered events that template tid is active for and matches
EventsMatching(tid) ==
    {i \in 1..Len(events) : /\ events[i].type = Templates[tid].event_type
                            /\ Templates[tid].is_active
                            /\ MatchesTemplate(events[i], Templates[tid])}

EventJobsOf(tid) ==
    {j \in JobIds : /\ jobs[j].type = "event_triggered"
                    /\ jobs[j].config.transfer_template_id = tid}

\* C15: for every delivered event and every active template of its type that
\* matches it there is exactly one EVENT_TRIGGERED job, created QUEUED and
\* put on the queue, and the template's total_triggers counts it.
C15_OneJobPerEventAndTemplate ==
    \A tid \in TemplateIds :
        /\ Cardinality(EventJobsOf(tid)) = Cardinality(EventsMatching(tid))
        /\ \A j \in EventJobsOf(tid) : jobs[j].status = "queued" => j \in Queued
        /\ tstats[tid].total_triggers >= Cardinality(EventsMatching(tid))

\* C16: a job created from a template that declares chain rules carries
\* those rules under config.chain_rules.
C16_TemplateJobCarriesChainRules ==
    \A j \in JobIds :
        ("transfer_template_id" \in DOMAIN jobs[j].config
         /\ Templates[jobs[j].config.transfer_template_id].chain_rules # <<>>)
        => /\ "chain_rules" \in DOMAIN jobs[j].config
           /\ jobs[j].config.chain_rules
                = Templates[jobs[j].config.transfer_template_id].chain_rules

\* client c is handed an entry by dequeue_job in this step
Reads(c) == wk[c].pc = "idle" /\ wk'[c].pc = "peeked"

\* C17: dequeue returns an entry whose score is at most the wall clock and
\* lowest among those, and the id is off the queue when dequeue ends; no
\* entry is returned while none is due, so an entry enqueued with a delay is
\* not returned before the delay has passed, and a single due entry is the
\* one returned.
C17_DequeueLowestDue ==
    [][\A c \in Workers :
        /\ Reads(c)
           => LET j == wk'[c].job_id IN
              /\ j \in Queued
              /\ queue[j].score <= now
              /\ \A k \in Queued : queue[k].score <= now => queue[j].score <= queue[k].score
        /\ (wk[c].pc = "peeked" /\ wk'[c].pc = "dequeued")
           => wk[c].job_id \notin DOMAIN queue']_vars

\* a client holds an entry that was enqueued with a delay, after the delay,
\* while another entry waits that is not due yet
C17_Witness ==
    \E c \in Workers :
        /\ wk[c].pc = "peeked"
        /\ wk[c].job_id \in Queued
        /\ queue[wk[c].job_id].score > 1
        /\ queue[wk[c].job_id].score <= now
        /\ \E k \in Queued : queue[k].score > now

\* C18: among due entries of equal score dequeue returns the one enqueued
\* first.
C18_FifoOnTies ==
    [][\A c \in Workers :
        Reads(c)
        => \A k \in Queued :
              queue[k].score = queue[wk'[c].job_id].score
              => queue[wk'[c].job_id].ticket <= queue[k].ticket]_vars

\* C19: enqueuing an id that is on the queue leaves one entry for it, the
\* queue no longer, with the score of the later enqueue.
C19_ReEnqueueKeepsOneEntry ==
    [][\A job_id \in 1..MaxJobs, priority \in Priorities, delay \in Delays :
        (QueueEnqueue(job_id, priority, delay) /\ job_id \in Queued)
        => /\ Cardinality(DOMAIN queue') = Cardinality(DOMAIN queue)
           /\ job_id \in DOMAIN queue'
           /\ queue'[job_id].score = EnqueueScore(priority, delay)]_vars

\* two enqueues of one id, the later one with a delay: one entry, one ticket,
\* the later score
C19_Witness ==
    /\ calls = 2
    /\ Len(tickets) = 1
    /\ Cardinality(Queued) = 1
    /\ \A j \in Queued : queue[j].score = now + 60

\* C20: whatever increments and decrements came before, concurrent or in
\* surplus, get_endpoint_counter returns no value below zero, and with no
\* decrement under way a counter is not below zero.
C20_CounterNeverNegative ==
    /\ \A c \in Workers : wk[c].pc = "got" => wk[c].value >= 0
    /\ (\A c \in Workers : wk[c].pc # "clamp") => \A e \in EndpointIds : counters[e] >= 0

\* worker w is in execute_job, past the throttle check, and its listing
\* comes back as files
Lists(w, files) ==
    /\ wk[w].pc = "running"
    /\ CanStartTransfer(jobs[wk[w].job_id].source_endpoint_id,
                        jobs[wk[w].job_id].destination_endpoint_id)
    /\ ExecuteJobListed(w, files)
    /\ UNCHANGED <<queue, tickets, counters, now, sched, calls, tstats, events, s3>>

\* C21: a run whose listing is empty takes the job from RUNNING (where the
\* dequeue put it) to COMPLETED with completed_at set, adds no Transfer row
\* and no job, changes no other job and enqueues nothing.
C21_EmptyListingCompletes ==
    [][\A w \in Workers :
        (Lists(w, <<>>) /\ jobs[wk[w].job_id].status = "running")
        => /\ jobs'[wk[w].job_id].status = "completed"
           /\ jobs'[wk[w].job_id].completed_at # NoTime
           /\ transfers' = transfers
           /\ Len(jobs') = Len(jobs)
           /\ \A c \in JobIds : c # wk[w].job_id => jobs'[c] = jobs[c]
           /\ queue' = queue]_vars

\* a job started from a template has completed without any Transfer row and
\* its chain job, made when the template was executed, still waits off the queue
C21_Witness ==
    \E j \in JobIds :
        /\ jobs[j].status = "completed"
        /\ jobs[j].total_runs = 1
        /\ \A t \in TransferIds : transfers[t].job_id # j
        /\ \E c \in JobIds : /\ jobs[c].parent_job_id = j
                             /\ jobs[c].status = "pending"
                             /\ c \notin Queued

\* the transfers of the run worker w is in that the loop has been through
Attempted(w) ==
    IF wk[w].pc = "summary" THEN {wk[w].tlist[i] : i \in 1..Len(wk[w].tlist)}
    ELSE IF wk[w].pc \in {"transfer", "resolve", "copy"}
         THEN {wk[w].tlist[i] : i \in 1..(wk[w].idx - 1)}
         ELSE {}

\* C22: a transfer that fails is FAILED with its error message, the loop
\* goes on with the next transfer of the job, and when the job is about to
\* be finalized every transfer of the run is COMPLETED or FAILED.
C22_FailedTransferDoesNotStopTheRest ==
    \A w \in Workers :
        /\ \A t \in Attempted(w) :
              /\ transfers[t].status \in {"completed", "failed"}
              /\ transfers[t].status = "failed" => transfers[t].error_message \in TransferErrors
        /\ wk[w].pc = "summary"
           => \A t \in TransferIds :
                 transfers[t].job_id = wk[w].job_id
                 => transfers[t].status \in {"completed", "failed"}

\* a run of two transfers is about to be finalized, the first transfer
\* FAILED and the second COMPLETED
C22_Witness ==
    \E w \in Workers :
        /\ wk[w].pc = "summary"
        /\ Len(wk[w].tlist) = 2
        /\ transfers[wk[w].tlist[1]].status = "failed"
        /\ transfers[wk[w].tlist[1]].error_message = "Rclone failed"
        /\ transfers[wk[w].tlist[2]].status = "completed"

\* worker w is in execute_job, past the throttle check, and configuring or
\* listing the source raises
Raises(w) ==
    /\ wk[w].pc = "running"
    /\ CanStartTransfer(jobs[wk[w].job_id].source_endpoint_id,
                        jobs[wk[w].job_id].destination_endpoint_id)
    /\ ExecuteJobRaised(w)
    /\ UNCHANGED <<queue, tickets, counters, now, sched, calls, tstats, events, s3>>

\* C23: an adapter error or timeout while a dequeued job is processed does
\* not leave the job FAILED, and the job is on the queue afterwards to be
\* processed again.
C23_TransientErrorKeepsJob ==
    [][\A w \in Workers :
        Raises(w)
        => /\ jobs'[wk[w].job_id].status # "failed"
           /\ wk[w].job_id \in DOMAIN queue']_vars

TransferArguments(parent_id) == {NotGiven, <<>>, TransfersOf(parent_id)}

\* how many jobs a call makes per rule: one, or one per transfer handed over
PerRule(per_file_transfers) ==
    IF per_file_transfers = NotGiven \/ per_file_transfers = <<>> THEN 1
    ELSE Len(per_file_transfers)

C27_EmptyTransferListCreatesNothing ==
    [][\A p \in JobIds, rules \in ChainRuleLists :
        (rules # <<>> /\ ChainCreate(p, rules, <<>>)) => jobs' = jobs]_vars

\* what C28 says of the job made for a rule
LegacyJobOf(c, p, rule) ==
    /\ c.type = "chained"
    /\ c.status = "pending"
    /\ c.parent_job_id = p
    /\ c.source_endpoint_id = jobs[p].destination_endpoint_id
    /\ c.source_path = jobs[p].destination_path
    /\ c.file_pattern = jobs[p].file_pattern
    /\ c.destination_endpoint_id = rule.endpoint_id

RECURSIVE SlotsOut(_, _)
SlotsOut(cs, e) ==
    IF cs = {} THEN 0
    ELSE LET c == CHOOSE x \in cs : TRUE IN Held(c, e) + SlotsOut(cs \ {c}, e)

\* C29: with slots taken only by acquire_slot and given back only by
\* release_slot, however the calls of several workers interleave, the slots
\* out on an endpoint never exceed its max_concurrent_transfers.
C29_SlotsWithinLimit ==
    \A e \in EndpointIds : SlotsOut(Workers, e) <= Endpoints[e].max_concurrent_transfers

\* the acquire race: a worker incremented past the limit and is about to
\* decrement again, while the endpoint's slots are all out
C29_Witness ==
    \E c \in Workers :
        /\ wk[c].pc = "decrement"
        /\ counters[wk[c].endpoint_id] > Endpoints[wk[c].endpoint_id].max_concurrent_transfers
        /\ SlotsOut(Workers, wk[c].endpoint_id)
             = Endpoints[wk[c].endpoint_id].max_concurrent_transfers

\* the transfers of worker w's run that FAILED, in the order of the run
FailedInRun(w) ==
    SelectSeq(wk[w].tlist, LAMBDA t : transfers[t].status = "failed")

\* C26: when a run ends FAILED because transfers failed, the job's
\* error_message is the message of the last failing transfer, and the
\* transfers keep their own messages.
C26_JobCarriesLastTransferError ==
    [][\A w \in Workers :
        (Finishes(w) /\ jobs'[wk[w].job_id].status = "failed" /\ FailedInRun(w) # <<>>)
        => /\ jobs'[wk[w].job_id].error_message
                = transfers[FailedInRun(w)[Len(FailedInRun(w))]].error_message
           /\ transfers' = transfers]_vars

\* C30: while the copy of a transfer runs, the counters of its job's source
\* and destination endpoints count it, and an endpoint with no transfer
\* IN_PROGRESS has its counter at zero.
C30_CounterCountsTransfersInProgress ==
    /\ \A w \in Workers :
          wk[w].pc = "copy"
          => /\ counters[jobs[wk[w].job_id].source_endpoint_id] >= 1
             /\ counters[jobs[wk[w].job_id].destination_endpoint_id] >= 1
    /\ \A e \in EndpointIds : InProgressOn(e) = {} => counters[e] = 0

\* the transfer whose copy worker w is running
Copying(w) == wk[w].tlist[wk[w].idx]

\* C31: the resolved destination_path of a transfer is in its row before the
\* copy is started, it is not written again afterwards, and the chain jobs
\* made for the transfer when the job ends are built from that value.
C31_DestinationCommittedBeforeCopy ==
    [][/\ \A w \in Workers :
            wk'[w].pc = "copy" => transfers'[Copying(w)'].destination_path # NULL
       /\ \A t \in TransferIds :
            transfers[t].destination_path # NULL
            => transfers'[t].destination_path = transfers[t].destination_path
       /\ \A w \in Workers :
            Finishes(w)
            => \A c \in (Len(jobs) + 1)..Len(jobs') :
                  "parent_transfer_id" \in DOMAIN jobs'[c].config
                  => LET t == jobs'[c].config.parent_transfer_id
                         d == StripRemotePrefix(transfers[t].destination_path)
                     IN  /\ transfers[t].destination_path # NULL
                         /\ jobs'[c].source_path = ChainSourceDir(d)
                         /\ jobs'[c].file_pattern = Basename(d)]_vars

C31_Witness ==
    \E c \in JobIds :
        /\ jobs[c].type = "chained"
        /\ "parent_transfer_id" \in DOMAIN jobs[c].config
        /\ transfers[jobs[c].config.parent_transfer_id].status = "completed"
        /\ transfers[jobs[c].config.parent_transfer_id].destination_path # NULL

\* the transfers of job p are all in a terminal status
TransfersFinal(ts, p) ==
    \A t \in 1..Len(ts) :
        ts[t].job_id = p => ts[t].status \in {"completed", "failed", "cancelled"}

\* C32: the id of a CHAINED job is put on the queue only by the step in which
\* a worker ends the run of its parent, when the parent is COMPLETED and every
\* transfer of the parent is in a terminal status.
C32_ChainJobEnqueuedByParentCompletion ==
    [][\A c \in DOMAIN queue' \ DOMAIN queue :
          jobs'[c].type = "chained"
          => /\ \E w \in Workers : Finishes(w) /\ wk[w].job_id = jobs'[c].parent_job_id
             /\ jobs'[jobs'[c].parent_job_id].status = "completed"
             /\ TransfersFinal(transfers', jobs'[c].parent_job_id)]_vars

\* workers that have started a DECR on endpoint e and not yet done it
Decrementing(e) ==
    {c \in Workers : wk[c].pc = "decrement" /\ wk[c].endpoint_id = e}

\* the counter of endpoint e counts slots of workers that are gone, and that
\* leaves no slot free
PinnedByCrash(e) ==
    /\ counters[e] >= Endpoints[e].max_concurrent_transfers
    /\ SlotsOut(Workers, e) = 0
    /\ Decrementing(e) = {}

\* C33: an endpoint whose slots were all taken by workers that died before
\* releasing them does not stay without a free slot: a live worker's
\* acquire_slot on it succeeds in the end.
C33_CrashDoesNotPinEndpoint ==
    \A e \in EndpointIds :
        [](PinnedByCrash(e) => <>(\E c \in Workers : Held(c, e) > 0))

\* C34: between the steps of the triggers and of the workers, every job whose
\* stored status is QUEUED has its id on the queue.
C34_QueuedJobIsOnQueue ==
    \A j \in JobIds : jobs[j].status = "queued" => j \in Queued

\* the CHAINED jobs that wait, PENDING, for parent p
WaitingFor(p) ==
    {c \in JobIds : /\ jobs[c].type = "chained" /\ jobs[c].parent_job_id = p
                    /\ jobs[c].status = "pending"}

\* C35: when a parent becomes COMPLETED, a parent that found no file
\* included, every CHAINED job that waits for it is moved to QUEUED and put on
\* the queue, so that none stays PENDING behind a COMPLETED parent.
C35_CompletionQueuesWaitingChainJobs ==
    [][\A p \in JobIds :
          (jobs[p].status = "running" /\ jobs'[p].status = "completed")
          => \A c \in WaitingFor(p) :
                jobs'[c].status = "queued" /\ c \in DOMAIN queue']_vars

\* what an rclone path names on its remote: the path without the name of the
\* remote, which is "dest" when the parent writes and "source" when the chain
\* job reads
RemoteObject(url) ==
    IF Len(url) >= 2 /\ url[1] \in {"source", "dest"} /\ url[2] = ":"
    THEN SubSeq(url, 3, Len(url))
    ELSE url

\* _execute_transfer line 368 for a chain job: the rclone path of the file it
\* reads, built from its source_path and the file its file_pattern names
ChainLocation(c) ==
    BuildRemotePath("source", Endpoints[jobs[c].source_endpoint_id],
                    jobs[c].source_path, jobs[c].file_pattern)

\* C36: a per-file chain job whose parent wrote to an S3 or SMB endpoint
\* reads the object the parent's transfer wrote: the path rebuilt from its
\* source_path and file_pattern names what Transfer.destination_path names.
C36_ChainJobReadsWhatParentWrote ==
    \A c \in JobIds :
        (/\ jobs[c].type = "chained"
         /\ "parent_transfer_id" \in DOMAIN jobs[c].config
         /\ Endpoints[jobs[c].source_endpoint_id].type \in {"s3", "smb"})
        => RemoteObject(ChainLocation(c))
             = RemoteObject(transfers[jobs[c].config.parent_transfer_id].destination_path)

\* worker w is executing job j: it has set it RUNNING and not yet written the
\* status that ends the run
Executing(w, j) ==
    wk[w].job_id = j /\ wk[w].pc \in {"running", "transfer", "resolve", "copy", "summary"}

\* C37: every job a worker set RUNNING leaves RUNNING again when the copies
\* exit, a graceful stop of the worker included. Stated as what makes it so:
\* a job that is RUNNING is in the hands of a worker that is still executing
\* it, whose remaining steps write COMPLETED, FAILED or QUEUED.
C37_RunningJobIsBeingExecuted ==
    \A j \in JobIds :
        jobs[j].status = "running" => \E w \in Workers : Executing(w, j)

\* C38: the three expanders give the same string for the same template, file
\* and clock: the destination_path the chain generator expanded for a chain
\* job is what the worker's and the event dispatcher's expander give for the
\* rule's path_template and the same source file.
C38_ExpandersAgree ==
    [][\A c \in (Len(jobs) + 1)..Len(jobs') :
          "parent_transfer_id" \in DOMAIN jobs'[c].config
          => LET template == jobs'[c].config.chain_rule.path_template
                 source   == StripRemotePrefix(
                                 transfers[jobs'[c].config.parent_transfer_id].destination_path)
             IN  /\ jobs'[c].destination_path = WorkerApplyPathTemplate(template, source)
                 /\ jobs'[c].destination_path = EventApplyPathTemplate(template, source)]_vars

\* C39: for every job that is not SCHEDULED, whatever runs the workers have
\* made of it, total_runs = successful_runs + failed_runs.
C39_RunsAddUp ==
    \A j \in JobIds :
        jobs[j].type # "scheduled"
        => jobs[j].total_runs = jobs[j].successful_runs + jobs[j].failed_runs

\* C40: across polls the S3 monitor dispatches a (bucket, key, etag) triple at
\* most once while the object is younger than twice the polling interval, and
\* after a poll step its set of seen triples holds at most 10,000 entries
S3Dispatches == {i \in DOMAIN events : events[i].type = "s3:ObjectCreated"}

DispatchedOnce ==
    \A i, j \in S3Dispatches :
        (/\ events[i].bucket = events[j].bucket
         /\ events[i].key = events[j].key
         /\ events[i].etag = events[j].etag
         /\ events[i].last_modified = events[j].last_modified) => i = j

SeenWithinLimit == ProcessedLen(s3.processed_events) <= ProcessedEventsLimit

\* C40: a triple is dispatched at most once while its object is young, and
\* the set of seen triples never holds more than 10,000 entries
C40_DispatchedOnceAndSeenBounded == DispatchedOnce /\ SeenWithinLimit

====
